---- MODULE Spec2Model ----
(***************************************************************************)
(* shreddit (src/main.go): list a user's comments page by page, decide     *)
(* per comment whether it is preserved, and overwrite-then-delete the      *)
(* others.  Two threads of control: the goroutine started by List (the     *)
(* producer) and main's range loop (the consumer), joined by an unbuffered *)
(* channel.                                                                *)
(*                                                                         *)
(* Time is counted in ticks, TicksPerSecond ticks to the second, so that a *)
(* fractional created_utc and a cutoff with a sub-second part are          *)
(* representable.                                                          *)
(***************************************************************************)
EXTENDS Integers, Sequences, FiniteSets, TLC

VARIABLES
    config,     \* the Config main works with (the decoded config.json)
    mState,     \* main's position
    loadErr,    \* configLoader returned an error (config is then nil)
    authErr,    \* newAccessToken returned an error
    accessToken,\* the bearer token main holds
    exit,       \* how the process ended: "running", "ok" (main returned), "panic"
    comment,    \* the loop variable of main's range loop
    editResult, \* outcome of Edit for the current comment
    pState,     \* the producer goroutine's position
    lastSeen,   \* List's cursor
    children,   \* res.Data.Children of the page being sent
    after,      \* res.Data.After of the page being sent
    sendIdx,    \* index of the child the producer is blocked sending
    prodExit,   \* the path on which the goroutine left: "none", "exhausted", "failed"
    requests,   \* the listing GETs issued, each by the cursor it carried
    pageLog,    \* the decoded pages, each as [n, after]
    fetched,    \* the children of every decoded page, concatenated
    invoked,    \* the Edit / Delete method invocations main made
    calls,      \* the mutating HTTP calls issued
    skipLog,    \* the skip reasons printed
    decided,    \* what each call of ShouldSkip answered, in call order
    sleeps,     \* pacing waits performed
    verdict     \* the filter's answer in the filter-only specification

vars == << config, mState, loadErr, authErr, accessToken, exit, comment,
           editResult, pState, lastSeen, children, after, sendIdx, prodExit,
           requests, pageLog, fetched, invoked, calls, skipLog, decided,
           sleeps, verdict >>

-----------------------------------------------------------------------------
(* Bounds of the model *)

\* listing requests after which the endpoint answers with an empty cursor
MaxPages == 2
\* comments the endpoint returns over a run, all pages together
MaxComments == 3
\* ticks to the second
TicksPerSecond == 2
\* latest instant (in ticks) of the filter-only specification
MaxTime == 5
\* largest score / max-score of the filter-only specification
MaxScoreVal == 1

-----------------------------------------------------------------------------
(* Data *)

IDs == {"a", "b"}
Subreddits == {"x", "mod_only"}
Cursors == {"X", "Y"}

\* Comment (ID, Subreddit, Source.Score, Source.CreatedUTC); Body and
\* Permalink are never read.
MkComment(id, sub, score, created) ==
    [ID |-> id, Subreddit |-> sub, Score |-> score, CreatedUTC |-> created]

\* Config, the fields the run reads
MkConfig(ids, subs, before, maxScore, dry) ==
    [SkipCommentIDs |-> ids, SkipSubreddits |-> subs, Before |-> before,
     MaxScore |-> maxScore, DryRun |-> dry]

NoComment == MkComment("", "", 0, 0)

\* int64(f) of a float64 f given in ticks: the whole seconds of f, the
\* fraction discarded towards zero (-0.5 s gives 0, -1.5 s gives -1)
Int64(ticks) ==
    IF ticks >= 0 THEN ticks \div TicksPerSecond
                  ELSE -((-ticks) \div TicksPerSecond)

\* Comment.Created: time.Unix(int64(CreatedUTC), 0), in ticks
Created(c) == Int64(c.CreatedUTC) * TicksPerSecond

FullnameWithoutPrefix(c) == c.ID

\* Comment.Fullname
Fullname(c) == "t1_" \o c.ID

\* time.Time.After
After(t, u) == t > u

ShouldSkipScoreFirst(c, cfg) ==
    IF \E i \in 1..Len(cfg.SkipCommentIDs) : cfg.SkipCommentIDs[i] = c.ID
    THEN "skip_comment_ids"
    ELSE IF \E i \in 1..Len(cfg.SkipSubreddits) : cfg.SkipSubreddits[i] = c.Subreddit
    THEN "skip_subreddits"
    ELSE IF c.Score > cfg.MaxScore
    THEN "max_score"
    ELSE IF After(Created(c), cfg.Before)
    THEN "before"
    ELSE "none"

\* Comment.ShouldSkip, as the reason it prints ("none": it returns false)
ShouldSkipReason(c, cfg) ==
    IF \E i \in 1..Len(cfg.SkipCommentIDs) : cfg.SkipCommentIDs[i] = c.ID
    THEN "skip_comment_ids"
    ELSE IF \E i \in 1..Len(cfg.SkipSubreddits) : cfg.SkipSubreddits[i] = c.Subreddit
    THEN "skip_subreddits"
    ELSE IF After(Created(c), cfg.Before)
    THEN "before"
    ELSE IF c.Score > cfg.MaxScore
    THEN "max_score"
    ELSE "none"

ShouldSkip(c, cfg) == ShouldSkipReason(c, cfg) # "none"

ShouldSkipConsumingID(c, cfg) ==
    [reason |-> ShouldSkipReason(c, cfg),
     c      |-> c,
     config |-> [cfg EXCEPT !.SkipCommentIDs =
                    SelectSeq(cfg.SkipCommentIDs, LAMBDA id : id # c.ID)]]

\* Comment.ShouldSkip as a call on its two pointers (c *Comment,
\* config *Config): the answer, and *c and *config as the call leaves them.
\* The method only ranges over, compares and prints their fields; it
\* assigns to neither.
ShouldSkipEffect(c, cfg) ==
    [reason |-> ShouldSkipReason(c, cfg), c |-> c, config |-> cfg]

DeleteProceedsWhenSkipped(c, cfg) == ~cfg.DryRun

DeleteProceedsInDryRun(c, cfg) == ~ShouldSkip(c, cfg)

\* Comment.Delete goes on to its HTTP call
DeleteProceeds(c, cfg) == ~(ShouldSkip(c, cfg) \/ cfg.DryRun)

EditProceedsWhenSkipped(c, cfg) == ~cfg.DryRun

\* Comment.Edit goes on to its HTTP call
EditProceeds(c, cfg) == ~(ShouldSkip(c, cfg) \/ cfg.DryRun)

\* the form body of the edit call and of the delete call
EditCall(c, cfg) == [kind |-> "edit", id |-> Fullname(c)]
DeleteCall(c) == [kind |-> "delete", id |-> Fullname(c)]

QueryParamsAlways(cursor) == "?after=" \o cursor

\* List: the query string of a listing request
QueryParams(cursor) == IF cursor # "" THEN "?after=" \o cursor ELSE ""

StreamEndsOnEmptyCursorOnly(ch, af) == af = ""

\* List: the loop's break condition
StreamEnds(ch, af) == Len(ch) = 0 \/ af = ""

ChildToSendReversed(ch, i) == ch[Len(ch) + 1 - i]

\* List: the i-th child the range loop sends
ChildToSend(ch, i) == ch[i]

\* newAccessToken: (token, err) for each way the exchange can go
TokenOutcomes == {"ok", "transport", "readbody", "undecodable", "errorfield"}
NewAccessToken(r) ==
    IF r = "ok" THEN [token |-> "token", err |-> FALSE]
                ELSE [token |-> "", err |-> TRUE]

\* main: where it goes with newAccessToken's error (fmt.Errorf only builds
\* an error value; nothing is printed and nothing returns)
AfterAuth(err) == "list"

\* the ways the edit call and the delete call can go
EditOutcomes == {"transport", "undecodable", "nomarker", "ok"}
DeleteOutcomes == {"transport", "ok"}

AfterEditSkippingDeleteOnFailure(o) ==
    IF o \in {"ok", "skipped"} THEN "delete" ELSE "recv"

\* main: Delete is called when Edit returns, however it went
AfterEdit(o) == "delete"

\* main: the loop body ends with Delete (the sleep is commented out)
AfterDelete == "recv"

\* main: time.Sleep calls per iteration of the loop
PacingWaits == 0

SeqsUpTo(S, n) == UNION { [1..k -> S] : k \in 0..n }

-----------------------------------------------------------------------------
(* The run: inputs *)

\* the policies the run is checked with: one preserves a sub-community and
\* has its cutoff at second 2, the other preserves an id and has its cutoff
\* at second 4; both have max-score 5
RunConfigs ==
    { MkConfig(<< >>, << "mod_only" >>, 2 * TicksPerSecond, 5, dry) :
        dry \in BOOLEAN }
    \cup
    { MkConfig(<< "a" >>, << >>, 4 * TicksPerSecond, 5, dry) :
        dry \in BOOLEAN }

\* the comments the listing endpoint may return
StreamComments ==
    { MkComment("a", "x", 1, TicksPerSecond),
      MkComment("b", "mod_only", 9, TicksPerSecond),
      MkComment("c", "x", 5, 3 * TicksPerSecond + 1) }

\* the children the endpoint may return when it has returned n comments so far
Pages(n) == SeqsUpTo(StreamComments, MaxComments - n)

\* the cursors the endpoint may return with the page of the n-th request
AfterChoices(n) == IF n < MaxPages THEN Cursors \cup {""} ELSE {""}

Idle ==
    /\ loadErr = FALSE /\ authErr = FALSE /\ accessToken = ""
    /\ exit = "running" /\ editResult = "none"
    /\ pState = "idle" /\ lastSeen = "" /\ children = << >> /\ after = ""
    /\ sendIdx = 0 /\ prodExit = "none" /\ requests = << >>
    /\ pageLog = << >> /\ fetched = << >> /\ invoked = << >>
    /\ calls = << >> /\ skipLog = << >> /\ decided = << >> /\ sleeps = 0
    /\ verdict = "undecided"

Init ==
    /\ config \in RunConfigs
    /\ mState = "load"
    /\ comment = NoComment
    /\ Idle

-----------------------------------------------------------------------------
(* main, up to the loop *)

mainVars == << mState, loadErr, authErr, accessToken, exit, comment, editResult >>
prodVars == << pState, lastSeen, children, after, sendIdx, prodExit >>
listVars == << requests, pageLog, fetched >>
workVars == << invoked, calls, skipLog, decided, sleeps >>

\* main: configLoader("config.json"); its error is dropped
LoadConfig ==
    /\ mState = "load"
    /\ \E ok \in BOOLEAN : loadErr' = ~ok
    /\ mState' = "auth"
    /\ UNCHANGED << config, authErr, accessToken, exit, comment, editResult,
                    prodVars, listVars, workVars, verdict >>

\* main: newAccessToken(config); with a nil config it dereferences nil
Authenticate ==
    /\ mState = "auth"
    /\ IF loadErr
       THEN /\ exit' = "panic"
            /\ mState' = "exited"
            /\ UNCHANGED << authErr, accessToken >>
       ELSE /\ \E r \in TokenOutcomes :
                 /\ accessToken' = NewAccessToken(r).token
                 /\ authErr' = NewAccessToken(r).err
                 /\ mState' = AfterAuth(NewAccessToken(r).err)
            /\ UNCHANGED exit
    /\ UNCHANGED << config, loadErr, comment, editResult,
                    prodVars, listVars, workVars, verdict >>

\* List: make the channel, start the goroutine, return the channel
StartList ==
    /\ mState = "list"
    /\ mState' = "recv"
    /\ pState' = "loop"
    /\ UNCHANGED << config, loadErr, authErr, accessToken, exit, comment,
                    editResult, lastSeen, children, after, sendIdx, prodExit,
                    listVars, workVars, verdict >>

-----------------------------------------------------------------------------
(* List's goroutine *)

AfterPageWithoutClose(ch, af) ==
    IF StreamEnds(ch, af)
    THEN /\ pState' = "returned"
         /\ prodExit' = "exhausted"
         /\ UNCHANGED lastSeen
    ELSE /\ pState' = "loop"
         /\ lastSeen' = af
         /\ UNCHANGED prodExit

\* List: what follows the range loop over a page's children: break (and the
\* deferred close), or take the cursor and loop
AfterPage(ch, af) ==
    IF StreamEnds(ch, af)
    THEN /\ pState' = "closed"
         /\ prodExit' = "exhausted"
         /\ UNCHANGED lastSeen
    ELSE /\ pState' = "loop"
         /\ lastSeen' = af
         /\ UNCHANGED prodExit

\* List: build the request and hand it to client.Do; http.NewRequest may
\* refuse the URI, and then the goroutine returns
ProducerRequest ==
    /\ pState = "loop"
    /\ \/ /\ requests' = Append(requests, QueryParams(lastSeen))
          /\ pState' = "get"
          /\ UNCHANGED prodExit
       \/ /\ pState' = "closed"
          /\ prodExit' = "failed"
          /\ UNCHANGED requests
    /\ UNCHANGED << config, mainVars, lastSeen, children, after, sendIdx,
                    pageLog, fetched, workVars, verdict >>

ProducerFetchFailsRetrying ==
    /\ pState = "get"
    /\ \E kind \in {"transport", "decode"} :
         /\ pState' = IF Len(requests) < MaxPages THEN "loop" ELSE "closed"
         /\ prodExit' = "failed"
    /\ UNCHANGED << config, mainVars, lastSeen, children, after, sendIdx,
                    listVars, workVars, verdict >>

\* List: client.Do or the decoding fails; the goroutine prints and returns,
\* the deferred close(out) runs
ProducerFetchFails ==
    /\ pState = "get"
    /\ \E kind \in {"transport", "decode"} :
         /\ pState' = "closed"
         /\ prodExit' = "failed"
    /\ UNCHANGED << config, mainVars, lastSeen, children, after, sendIdx,
                    listVars, workVars, verdict >>

\* List: a page is decoded; with no children the range loop is empty
ProducerPage ==
    /\ pState = "get"
    /\ \E ch \in Pages(Len(fetched)), af \in AfterChoices(Len(requests)) :
         /\ pageLog' = Append(pageLog, [n |-> Len(ch), after |-> af])
         /\ fetched' = fetched \o ch
         /\ children' = ch
         /\ after' = af
         /\ IF Len(ch) = 0
            THEN /\ AfterPage(ch, af)
                 /\ UNCHANGED sendIdx
            ELSE /\ pState' = "send"
                 /\ sendIdx' = 1
                 /\ UNCHANGED << lastSeen, prodExit >>
    /\ UNCHANGED << config, mainVars, requests, workVars, verdict >>

HandoffEarlyAdvance ==
    /\ pState = "send"
    /\ mState = "recv"
    /\ comment' = ChildToSend(children, sendIdx)
    /\ editResult' = "none"
    /\ mState' = "edit"
    /\ AfterPage(children, after)
    /\ UNCHANGED sendIdx
    /\ UNCHANGED << config, loadErr, authErr, accessToken, exit, children,
                    after, listVars, workVars, verdict >>

\* out <- child.Data meets main's receive (the channel is unbuffered)
Handoff ==
    /\ pState = "send"
    /\ mState = "recv"
    /\ comment' = ChildToSend(children, sendIdx)
    /\ editResult' = "none"
    /\ mState' = "edit"
    /\ IF sendIdx = Len(children)
       THEN /\ AfterPage(children, after)
            /\ UNCHANGED sendIdx
       ELSE /\ sendIdx' = sendIdx + 1
            /\ UNCHANGED << pState, lastSeen, prodExit >>
    /\ UNCHANGED << config, loadErr, authErr, accessToken, exit, children,
                    after, listVars, workVars, verdict >>

-----------------------------------------------------------------------------
(* main's loop *)

\* the line ShouldSkip prints for c, if any
Logged(c) ==
    IF ShouldSkip(c, config)
    THEN << [id |-> c.ID, reason |-> ShouldSkipReason(c, config)] >>
    ELSE << >>

\* Comment.Edit up to client.Do
EditStart ==
    /\ mState = "edit"
    /\ invoked' = Append(invoked, [op |-> "Edit", c |-> comment])
    /\ skipLog' = skipLog \o Logged(comment)
    /\ decided' = Append(decided, ShouldSkipEffect(comment, config).reason)
    /\ comment' = ShouldSkipEffect(comment, config).c
    /\ config' = ShouldSkipEffect(comment, config).config
    /\ IF EditProceeds(comment, config)
       THEN /\ calls' = Append(calls, EditCall(comment, config))
            /\ mState' = "editWait"
            /\ UNCHANGED editResult
       ELSE /\ editResult' = "skipped"
            /\ mState' = AfterEdit("skipped")
            /\ UNCHANGED calls
    /\ UNCHANGED << loadErr, authErr, accessToken, exit,
                    prodVars, listVars, sleeps, verdict >>

\* Comment.Edit from client.Do's return: every branch prints and returns
EditFinish ==
    /\ mState = "editWait"
    /\ \E o \in EditOutcomes :
         /\ editResult' = o
         /\ mState' = AfterEdit(o)
    /\ UNCHANGED << config, loadErr, authErr, accessToken, exit, comment,
                    prodVars, listVars, workVars, verdict >>

\* Comment.Delete up to client.Do
DeleteStart ==
    /\ mState = "delete"
    /\ invoked' = Append(invoked, [op |-> "Delete", c |-> comment])
    /\ skipLog' = skipLog \o Logged(comment)
    /\ decided' = Append(decided, ShouldSkipEffect(comment, config).reason)
    /\ comment' = ShouldSkipEffect(comment, config).c
    /\ config' = ShouldSkipEffect(comment, config).config
    /\ IF DeleteProceeds(comment, config)
       THEN /\ calls' = Append(calls, DeleteCall(comment))
            /\ mState' = "deleteWait"
            /\ UNCHANGED sleeps
       ELSE /\ mState' = AfterDelete
            /\ sleeps' = sleeps + PacingWaits
            /\ UNCHANGED calls
    /\ UNCHANGED << loadErr, authErr, accessToken, exit,
                    editResult, prodVars, listVars, verdict >>

\* Comment.Delete from client.Do's return, and the end of the loop body
DeleteFinish ==
    /\ mState = "deleteWait"
    /\ \E o \in DeleteOutcomes : mState' = AfterDelete
    /\ sleeps' = sleeps + PacingWaits
    /\ UNCHANGED << config, loadErr, authErr, accessToken, exit, comment,
                    editResult, prodVars, listVars, invoked, calls, skipLog,
                    decided, verdict >>

\* the range loop finds the channel closed; main returns
RecvClosed ==
    /\ mState = "recv"
    /\ pState = "closed"
    /\ mState' = "exited"
    /\ exit' = "ok"
    /\ UNCHANGED << config, loadErr, authErr, accessToken, comment,
                    editResult, prodVars, listVars, workVars, verdict >>

Next ==
    \/ LoadConfig
    \/ Authenticate
    \/ StartList
    \/ ProducerRequest
    \/ ProducerFetchFails
    \/ ProducerPage
    \/ Handoff
    \/ EditStart
    \/ EditFinish
    \/ DeleteStart
    \/ DeleteFinish
    \/ RecvClosed

Spec == Init /\ [][Next]_vars

\* the steps of List's goroutine alone, and of main alone
ProducerSteps == ProducerRequest \/ ProducerFetchFails \/ ProducerPage
MainSteps ==
    \/ LoadConfig \/ Authenticate \/ StartList \/ EditStart \/ EditFinish
    \/ DeleteStart \/ DeleteFinish \/ RecvClosed

\* The run under the Go scheduler: a goroutine that can run does run, every
\* HTTP call returns, and a send meets a waiting receive.
FairSpec ==
    /\ Spec
    /\ WF_vars(ProducerSteps)
    /\ WF_vars(MainSteps)
    /\ WF_vars(Handoff)

-----------------------------------------------------------------------------
(* The filter alone: ShouldSkip applied to one comment under one policy *)

\* instants on both sides of the epoch, whole and fractional seconds
FilterTimes == (-MaxTime)..MaxTime
FilterScores == -1..(MaxScoreVal + 1)

FilterComments ==
    { MkComment(id, sub, score, created) :
        id \in IDs, sub \in Subreddits, score \in FilterScores,
        created \in FilterTimes }

FilterConfigs ==
    { MkConfig(ids, subs, before, maxScore, FALSE) :
        ids \in { << >>, << "a" >>, << "b", "a" >> },
        subs \in { << >>, << "mod_only" >>, << "x", "mod_only" >> },
        before \in FilterTimes,
        maxScore \in 0..MaxScoreVal }

FilterInit ==
    /\ config \in FilterConfigs
    /\ comment \in FilterComments
    /\ mState = "filter"
    /\ Idle

\* one call of comment.ShouldSkip(config)
Decide ==
    /\ mState = "filter"
    /\ verdict' = ShouldSkipEffect(comment, config).reason
    /\ skipLog' = skipLog \o Logged(comment)
    /\ decided' = Append(decided, ShouldSkipEffect(comment, config).reason)
    /\ comment' = ShouldSkipEffect(comment, config).c
    /\ config' = ShouldSkipEffect(comment, config).config
    /\ mState' = "decided"
    /\ UNCHANGED << loadErr, authErr, accessToken, exit,
                    editResult, prodVars, listVars, invoked, calls, sleeps >>

FilterNext == Decide

FilterSpec == FilterInit /\ [][FilterNext]_vars

-----------------------------------------------------------------------------
(* Vocabulary of the properties *)

Elems(xs) == { xs[i] : i \in DOMAIN xs }

\* The Retention Filter's rules in their stated order, each with the reason
\* it reports; the disposition is the reason of the first rule that matches.
RuleNames == << "skip_comment_ids", "skip_subreddits", "before", "max_score", "none" >>
RuleMatches(c, P) ==
    << c.ID \in Elems(P.SkipCommentIDs),
       c.Subreddit \in Elems(P.SkipSubreddits),
       Created(c) > P.Before,
       c.Score > P.MaxScore,
       TRUE >>
FirstMatch(c, P) ==
    LET hits == { i \in DOMAIN RuleNames : RuleMatches(c, P)[i] }
    IN  RuleNames[CHOOSE i \in hits : \A j \in hits : i <= j]
Keep(c, P) == FirstMatch(c, P) = "none"

\* the comments main has received from the stream, in order
Received ==
    [ i \in 1..((Len(invoked) + 1) \div 2) |-> invoked[2 * i - 1].c ]
    \o (IF mState = "edit" THEN << comment >> ELSE << >>)

\* main is between two comments, or has returned
Quiescent == mState \in {"recv", "exited"}

RECURSIVE ExpectedCalls(_, _)
\* an edit call then a delete call for every kept comment of cs, in order
ExpectedCalls(cs, P) ==
    IF cs = << >> THEN << >>
    ELSE (IF Keep(Head(cs), P)
          THEN << [kind |-> "edit", id |-> "t1_" \o Head(cs).ID],
                  [kind |-> "delete", id |-> "t1_" \o Head(cs).ID] >>
          ELSE << >>)
         \o ExpectedCalls(Tail(cs), P)

TerminalPage(p) == p.n = 0 \/ p.after = ""

EditFailures == {"transport", "undecodable", "nomarker"}

-----------------------------------------------------------------------------
(* C1 *)

\* C1: with the dry-run flag set, no edit call and no delete call is ever
\* issued or in flight, whatever pages the listing endpoint returns; the
\* only requests of the run are listing GETs.
C1_DryRunSafety ==
    config.DryRun =>
        /\ calls = << >>
        /\ mState \notin {"editWait", "deleteWait"}

\* a finished dry run that listed and went through a comment the filter keeps
C1_Witness ==
    /\ config.DryRun
    /\ exit = "ok"
    /\ requests # << >>
    /\ \E i \in DOMAIN invoked :
         invoked[i].op = "Delete" /\ Keep(invoked[i].c, config)

-----------------------------------------------------------------------------
(* C2 *)

\* C2: with dry-run off, whenever main is between two comments or has
\* returned, the mutating calls issued so far are exactly one edit call
\* followed by one delete call for every received comment whose disposition
\* is keep, and none for a comment with a skip disposition.
C2_CallsIffKeep ==
    (~config.DryRun /\ Quiescent) => calls = ExpectedCalls(Received, config)

\* a finished run with dry-run off that met a kept and a skipped comment
C2_Witness ==
    /\ ~config.DryRun
    /\ exit = "ok"
    /\ \E i \in DOMAIN Received : Keep(Received[i], config)
    /\ \E i \in DOMAIN Received : ~Keep(Received[i], config)
    /\ Len(calls) >= 2

-----------------------------------------------------------------------------
(* C3 *)

\* C3: ShouldSkip answers with the reason of the first rule that matches in
\* the order id, sub-community, date (created after the cutoff), score
\* (greater than max-score), keep; a preserved id gives skip-by-id whatever
\* the other fields are, and a comment created exactly at the cutoff with
\* score equal to max-score, matched by neither list, is kept.  "Created" is
\* the instant Comment.Created() gives, on both sides of the epoch.
C3_FilterPrecedence ==
    mState = "decided" =>
        /\ verdict = FirstMatch(comment, config)
        /\ (comment.ID \in Elems(config.SkipCommentIDs)
                => verdict = "skip_comment_ids")
        /\ ( ( /\ comment.ID \notin Elems(config.SkipCommentIDs)
               /\ comment.Subreddit \notin Elems(config.SkipSubreddits)
               /\ Created(comment) = config.Before
               /\ comment.Score = config.MaxScore )
                => verdict = "none" )

\* every rule matches, and the id rule is the one reported
C3_Witness ==
    /\ mState = "decided"
    /\ comment.ID \in Elems(config.SkipCommentIDs)
    /\ comment.Subreddit \in Elems(config.SkipSubreddits)
    /\ Created(comment) > config.Before
    /\ comment.Score > config.MaxScore
    /\ verdict = "skip_comment_ids"

-----------------------------------------------------------------------------
(* C4 *)

\* C4: a comment matched by neither list whose creation timestamp, fraction
\* included, is after the cutoff is skipped by date, and neither Edit nor
\* Delete goes on to its call, also when timestamp and cutoff lie in the
\* same whole second.
C4_DateRuleFractional ==
    ( /\ mState = "decided"
      /\ comment.ID \notin Elems(config.SkipCommentIDs)
      /\ comment.Subreddit \notin Elems(config.SkipSubreddits)
      /\ comment.CreatedUTC > config.Before )
        => /\ verdict = "before"
           /\ ~EditProceeds(comment, config)
           /\ ~DeleteProceeds(comment, config)

-----------------------------------------------------------------------------
(* C5 *)

\* C5: no listing request follows the first page with zero comments or an
\* empty cursor; once that page's comments are handed over the channel is
\* closed on the normal path; and a stream that ended on the normal path
\* ended on such a page, with one request per page and every comment of
\* every page yielded.
C5_StreamTermination ==
    /\ \A i \in DOMAIN pageLog :
         TerminalPage(pageLog[i]) => (i = Len(pageLog) /\ Len(requests) = i)
    /\ ( /\ pageLog # << >>
         /\ TerminalPage(pageLog[Len(pageLog)])
         /\ Len(Received) = Len(fetched) )
            => (pState = "closed" /\ prodExit = "exhausted")
    /\ prodExit = "exhausted" =>
         /\ pState = "closed"
         /\ pageLog # << >>
         /\ TerminalPage(pageLog[Len(pageLog)])
         /\ Len(requests) = Len(pageLog)
         /\ Received = fetched

\* page 1 = 2 comments + cursor X, page 2 = 0 comments + empty cursor:
\* 2 comments, 2 requests, normal end
C5_Witness ==
    /\ pageLog = << [n |-> 2, after |-> "X"], [n |-> 0, after |-> ""] >>
    /\ prodExit = "exhausted"
    /\ requests = << "", "?after=X" >>
    /\ Len(Received) = 2
    /\ exit = "ok"

-----------------------------------------------------------------------------
(* C6 *)

\* C6: main's Edit and Delete invocations are, in order, Edit then Delete on
\* the 1st fetched comment, Edit then Delete on the 2nd, and so on through
\* the concatenation of the decoded pages; when main returns every fetched
\* comment has had both.
C6_ProcessingOrder ==
    /\ Len(invoked) <= 2 * Len(fetched)
    /\ \A i \in DOMAIN invoked :
         invoked[i] = [op |-> IF i % 2 = 1 THEN "Edit" ELSE "Delete",
                       c  |-> fetched[(i + 1) \div 2]]
    /\ \A i \in DOMAIN Received : Received[i] = fetched[i]
    /\ exit = "ok" => Len(invoked) = 2 * Len(fetched)

\* two pages, three distinct comments, all processed
C6_Witness ==
    /\ exit = "ok"
    /\ Len(pageLog) = 2
    /\ pageLog[1].n = 2
    /\ pageLog[2].n = 1
    /\ Cardinality(Elems(fetched)) = 3
    /\ Len(invoked) = 6

-----------------------------------------------------------------------------
(* C7 *)

\* C7: a run whose stream ended on a failed page fetch does not end as a
\* normal completion.
C7_StreamFailureReported ==
    ~(prodExit = "failed" /\ exit = "ok")

-----------------------------------------------------------------------------
(* C8 *)

\* C8: after a failed token exchange no listing request, no edit call and
\* no delete call is issued, and the process does not complete normally.
C8_AuthFailureFatal ==
    authErr =>
        /\ requests = << >>
        /\ calls = << >>
        /\ exit # "ok"

-----------------------------------------------------------------------------
(* C9 *)

\* C9: once the edit call of a comment is issued, whatever its outcome, main
\* goes on to Delete for the same comment; after a failed edit Delete issues
\* the delete call for that comment; and the run ends only with the stream
\* closed and every fetched comment through Edit and Delete.
C9_PartialFailureIsolation ==
    /\ [][ mState = "editWait" =>
              \/ mState' = "editWait"
              \/ (mState' = "delete" /\ comment' = comment /\ exit' = "running")
         ]_vars
    /\ [][ (mState = "delete" /\ editResult \in EditFailures /\ mState' # "delete")
              => /\ calls' = Append(calls, [kind |-> "delete", id |-> "t1_" \o comment.ID])
                 /\ mState' = "deleteWait"
         ]_vars
    /\ [][ mState = "deleteWait" => mState' \in {"deleteWait", "recv"} ]_vars
    /\ [] ( exit = "ok" =>
               (pState = "closed" /\ Len(invoked) = 2 * Len(fetched)) )

\* the edit of comment #2 of 3 failed and its delete call is in flight
C9_Witness ==
    /\ ~config.DryRun
    /\ Len(fetched) = 3
    /\ Len(Received) = 2
    /\ editResult \in EditFailures
    /\ mState = "deleteWait"
    /\ calls[Len(calls)] = [kind |-> "delete", id |-> "t1_" \o comment.ID]

-----------------------------------------------------------------------------
(* C10 *)

\* C10: whenever main is about to pull the next comment, it has performed
\* one pacing wait for every comment it has processed.
C10_Pacing ==
    mState = "recv" => sleeps = Len(Received)


-----------------------------------------------------------------------------
(* C11 *)

\* the comments decoded but not yet received by main
Unreceived == Len(fetched) - Len(Received)

\* C11: the comments fetched but not yet received by main all belong to the
\* page fetched last, the producer being blocked on the send of the first of
\* them; and whenever the producer is about to issue a listing request, or
\* has one in flight, every comment of every page fetched before has been
\* received by main.
C11_Backpressure ==
    /\ Unreceived >= 0
    /\ Unreceived > 0 =>
         /\ pState = "send"
         /\ Unreceived <= pageLog[Len(pageLog)].n
         /\ Unreceived = Len(children) - sendIdx + 1
    /\ pState \in {"loop", "get"} => Received = fetched
    /\ Len(requests) > Len(pageLog) => Received = fetched

\* the second page is fetched, main is busy with a call, and the producer is
\* blocked with comments of that page only
C11_Witness ==
    /\ Len(pageLog) = 2
    /\ pageLog[1].n = 1
    /\ pageLog[2].n = 2
    /\ pState = "send"
    /\ Unreceived = 2
    /\ mState = "editWait"

-----------------------------------------------------------------------------
(* C12 *)

RECURSIVE SumN(_)
\* the children of the pages of log, counted
SumN(log) == IF log = << >> THEN 0 ELSE log[1].n + SumN(Tail(log))

\* C12: when the producer left on a failure, the failed fetch has added no
\* comment (the comments fetched are those of the decoded pages, and main
\* has received them all), the goroutine has ended and issues no request
\* any more, and main returns only after Edit and Delete on every comment
\* that was emitted.
C12_NoPartialPage ==
    /\ [] ( prodExit = "failed" =>
              /\ pState = "closed"
              /\ Len(fetched) = SumN(pageLog)
              /\ Received = fetched
              /\ Len(requests) \in {Len(pageLog), Len(pageLog) + 1}
              /\ (exit = "ok" => Len(invoked) = 2 * Len(fetched)) )
    /\ [][ prodExit = "failed" =>
              /\ requests' = requests
              /\ fetched' = fetched
              /\ pageLog' = pageLog
              /\ pState' = "closed"
         ]_vars
    /\ [][ (pState = "get" /\ prodExit' = "failed") =>
              (fetched' = fetched /\ Len(Received') = Len(Received)) ]_vars

\* the fetch of page 2 failed after a page of two comments, both processed
C12_Witness ==
    /\ prodExit = "failed"
    /\ Len(requests) = 2
    /\ Len(pageLog) = 1
    /\ Len(fetched) = 2
    /\ Len(invoked) = 4
    /\ exit = "ok"


-----------------------------------------------------------------------------
(* C13 *)

\* xs is an initial part of ys
IsPrefix(xs, ys) ==
    /\ Len(xs) <= Len(ys)
    /\ \A i \in DOMAIN xs : xs[i] = ys[i]

\* C13: main has run Edit and Delete on every comment it received before the
\* current one; the mutating calls go edit, delete, edit, delete, ..., each
\* delete for the comment of the edit just before it; with dry-run off they
\* are an initial part of edit(c1), delete(c1), edit(c2), delete(c2), ...
\* over the kept comments received; an edit in flight is the last call and
\* has no delete yet, a delete in flight is the last call and follows the
\* edit of the same comment.
C13_SequentialConsumer ==
    /\ Len(invoked) >= 2 * (Len(Received) - 1)
    /\ Quiescent => Len(invoked) = 2 * Len(Received)
    /\ \A i \in DOMAIN calls :
         /\ calls[i].kind = IF i % 2 = 1 THEN "edit" ELSE "delete"
         /\ (i % 2 = 0 => calls[i].id = calls[i - 1].id)
    /\ ~config.DryRun => IsPrefix(calls, ExpectedCalls(Received, config))
    /\ mState \in {"editWait", "delete"} /\ editResult # "skipped" =>
         /\ Len(calls) % 2 = 1
         /\ calls[Len(calls)] = [kind |-> "edit", id |-> "t1_" \o comment.ID]
    /\ mState = "deleteWait" =>
         /\ Len(calls) % 2 = 0
         /\ calls[Len(calls)] = [kind |-> "delete", id |-> "t1_" \o comment.ID]
         /\ calls[Len(calls) - 1] = [kind |-> "edit", id |-> "t1_" \o comment.ID]
    /\ mState \in {"recv", "edit", "exited"} => Len(calls) % 2 = 0

\* a kept, a skipped and again a kept comment: four calls, the second
\* delete in flight
C13_Witness ==
    /\ ~config.DryRun
    /\ Len(Received) = 3
    /\ Keep(Received[1], config)
    /\ ~Keep(Received[2], config)
    /\ Keep(Received[3], config)
    /\ Len(calls) = 4
    /\ mState = "deleteWait"


-----------------------------------------------------------------------------
(* C14 *)

\* C14: the run eventually ends; until it has, some step can be taken (the
\* producer is never left blocked on a send, nor main on a receive); the
\* channel, once closed, stays closed and nothing is sent or fetched after;
\* and when main returns the goroutine has closed the channel and main has
\* received every comment that was fetched.
C14_Termination ==
    /\ <>(mState = "exited")
    /\ [] (mState # "exited" => ENABLED Next)
    /\ [] (pState = "send" /\ mState = "recv" => ENABLED Handoff)
    /\ [][ pState = "closed" =>
              /\ pState' = "closed"
              /\ fetched' = fetched
              /\ Len(Received') = Len(Received) ]_vars
    /\ [] (exit = "ok" =>
              /\ pState = "closed"
              /\ prodExit \in {"exhausted", "failed"}
              /\ Received = fetched)

\* a run of two pages and three comments that ended on the normal path
C14_Witness ==
    /\ mState = "exited"
    /\ exit = "ok"
    /\ pState = "closed"
    /\ prodExit = "exhausted"
    /\ Len(pageLog) = 2
    /\ Len(Received) = 3


-----------------------------------------------------------------------------
(* C15 *)

\* C15: the first listing request carries no query string and the i-th
\* carries after=<the cursor of page i-1>, never an empty one; the cursor
\* changes only when the producer goes from a decoded page that is not
\* terminal to its next request, and then to that page's cursor; and when
\* the producer is about to build a request after a page, its cursor is
\* that page's.
C15_CursorThreading ==
    /\ [] ( \A i \in DOMAIN requests :
               /\ requests[i] = IF i = 1 THEN ""
                                 ELSE "?after=" \o pageLog[i - 1].after
               /\ requests[i] # "?after=" )
    /\ [] ( (pState = "loop" /\ pageLog # << >>) =>
               /\ lastSeen = pageLog[Len(pageLog)].after
               /\ lastSeen # "" )
    /\ [] ( pageLog = << >> => lastSeen = "" )
    /\ [][ lastSeen' # lastSeen =>
              /\ pState \in {"get", "send"}
              /\ pState' = "loop"
              /\ ~TerminalPage(pageLog'[Len(pageLog')])
              /\ lastSeen' = pageLog'[Len(pageLog')].after
              /\ Len(Received') = Len(fetched') ]_vars

\* two requests, the second carrying the cursor Y the first page returned
C15_Witness ==
    /\ requests = << "", "?after=Y" >>
    /\ pageLog[1].after = "Y"
    /\ lastSeen = "Y"
    /\ Len(pageLog) = 2


-----------------------------------------------------------------------------
(* C16 *)

\* C16: a call of ShouldSkip leaves the comment it is called on and the
\* policy as they were, and no other step of the run writes the policy; every
\* call has its answer recorded, and two calls on the same comment gave the
\* same answer wherever in the run they were made, however many comments were
\* processed in between, in particular the call inside Edit and the call
\* inside Delete of one comment; with dry-run off, between two comments, each
\* call that answered "do not skip" has issued exactly its one mutating call
\* and no other call was issued, so no comment is edited and then skipped by
\* Delete, or the reverse.
C16_FilterPurity ==
    /\ [][config' = config]_vars
    /\ [][Len(decided') > Len(decided) => comment' = comment]_vars
    /\ [] ( /\ Len(decided) = Len(invoked)
            /\ \A i, j \in DOMAIN decided :
                 invoked[i].c = invoked[j].c => decided[i] = decided[j]
            /\ \A i \in DOMAIN decided :
                 (i % 2 = 0) => decided[i] = decided[i - 1] )
    /\ [] ( (~config.DryRun /\ Quiescent) =>
               /\ Len(calls) = Cardinality({ i \in DOMAIN decided : decided[i] = "none" })
               /\ Cardinality({ i \in DOMAIN calls : calls[i].kind = "edit" })
                    = Cardinality({ i \in DOMAIN calls : calls[i].kind = "delete" }) )

\* the same kept comment processed twice with a skipped one in between
C16_Witness ==
    /\ ~config.DryRun
    /\ exit = "ok"
    /\ Len(Received) = 3
    /\ Received[1] = Received[3]
    /\ Received[1] # Received[2]
    /\ decided = << "none", "none", decided[3], decided[3], "none", "none" >>
    /\ decided[3] # "none"


-----------------------------------------------------------------------------
(* C17 *)

RECURSIVE ExpectedReasons(_, _)
\* one line, with the reason of the first matching rule, for every skipped
\* comment of cs, and none for a kept one
ExpectedReasons(cs, P) ==
    IF cs = << >> THEN << >>
    ELSE (IF Keep(Head(cs), P)
          THEN << >>
          ELSE << [id |-> Head(cs).ID, reason |-> FirstMatch(Head(cs), P)] >>)
         \o ExpectedReasons(Tail(cs), P)

\* C17: between two comments and at the end of the run, the skip reasons
\* logged are exactly one per skipped comment received, the reason of its
\* first matching rule, and none for a kept comment.
C17_OneReasonPerComment ==
    Quiescent => skipLog = ExpectedReasons(Received, config)

-----------------------------------------------------------------------------
(* C18 *)

\* a listing GET is in flight; a mutating call is in flight
GetInFlight == pState = "get"
MutationInFlight == mState \in {"editWait", "deleteWait"}

\* C18: at most one listing GET is outstanding (requests issued exceed the
\* pages decoded by at most one, and by none while the producer sends or is
\* about to build a request); a mutating call in flight is the last call
\* issued and is for the comment main holds; and a GET and a mutating call
\* are in flight together only while main holds the last comment of the
\* page fetched last, all of it handed over, and the GET is the request for
\* the page after it.
C18_InFlightBound ==
    /\ Len(requests) - Len(pageLog) \in {0, 1}
    /\ GetInFlight => Len(requests) = Len(pageLog) + 1
    /\ pState \in {"idle", "loop", "send"} => Len(requests) = Len(pageLog)
    /\ MutationInFlight =>
         /\ calls # << >>
         /\ calls[Len(calls)].id = "t1_" \o comment.ID
         /\ calls[Len(calls)].kind = IF mState = "editWait" THEN "edit" ELSE "delete"
    /\ (GetInFlight /\ MutationInFlight) =>
         /\ pageLog # << >>
         /\ pageLog[Len(pageLog)].n > 0
         /\ Received = fetched
         /\ comment = fetched[Len(fetched)]
         /\ comment = children[Len(children)]
         /\ Len(requests) = Len(pageLog) + 1
         /\ requests[Len(requests)] = "?after=" \o pageLog[Len(pageLog)].after

\* the edit call for the last comment of page 1 and the GET for page 2 are
\* both in flight
C18_Witness ==
    /\ GetInFlight
    /\ mState = "editWait"
    /\ Len(pageLog) = 1
    /\ pageLog[1].n = 2
    /\ Len(requests) = 2

-----------------------------------------------------------------------------
(* C19 *)

\* C19: every mutating call targets "t1_" followed by the identifier of a
\* comment main has received; a call in flight targets the comment main
\* holds; the delete call of a comment carries the fullname of its edit
\* call; and a call is only ever added for the comment main holds.
C19_TargetIntegrity ==
    /\ [] ( \A i \in DOMAIN calls :
               /\ \E j \in DOMAIN Received :
                    calls[i].id = "t1_" \o Received[j].ID
               /\ (calls[i].kind = "delete" =>
                    (i > 1 /\ calls[i - 1].kind = "edit"
                           /\ calls[i - 1].id = calls[i].id)) )
    /\ [] ( mState \in {"editWait", "deleteWait"} =>
               calls[Len(calls)].id = "t1_" \o comment.ID )
    /\ [][ calls' # calls =>
              /\ Len(calls') = Len(calls) + 1
              /\ IsPrefix(calls, calls')
              /\ calls'[Len(calls')].id = "t1_" \o comment.ID
              /\ comment' = comment ]_vars

\* comments a, b, c received, only c kept: both calls target t1_c
C19_Witness ==
    /\ exit = "ok"
    /\ Len(Received) = 3
    /\ Received[1].ID = "a"
    /\ Received[2].ID = "b"
    /\ Received[3].ID = "c"
    /\ calls = << [kind |-> "edit", id |-> "t1_c"],
                  [kind |-> "delete", id |-> "t1_c"] >>

====
